---- MODULE Spec2Model ----
(***************************************************************************)
(* Model of QueueService (src/src/queue/controllers/queue-controller.ts,   *)
(* lines 116-334): the slot array, the queue state machine, the ready-up   *)
(* timer and the launch, together with the tasks the event loop holds for  *)
(* it (deferred updateState calls, ready-up timeouts, a ready() suspended  *)
(* at its await, the game creation and the deferred reset).                *)
(***************************************************************************)
EXTENDS Integers, Sequences, FiniteSets, TLC

VARIABLES
  config,          \* queueConfigService.queueConfig (teamCount, classes, maps)
  slots,           \* QueueService.slots
  state,           \* QueueService.state
  map,             \* QueueService.map
  timeouts,        \* scheduled readyUpTimeout callbacks that have not run yet
  pendingUpdates,  \* scheduled setTimeout(() => this.updateState(), 0) callbacks
  pendingReady,    \* ready() calls suspended at `await playerModel.findById`
  launches,        \* launch() calls suspended at `await this.gameService.create`,
                   \* each with the game its call builds
  pendingResets,   \* scheduled setTimeout(() => this.reset(), 0) callbacks
  emitted,         \* the events the last step emitted, in order
  lastOp           \* the last step: the call or task and what it gave back

vars == <<config, slots, state, map, timeouts, pendingUpdates,
          pendingReady, launches, pendingResets, emitted, lastOp>>

----------------------------------------------------------------------------
(* Bounds of the model *)

NumPlayers == 2
\* callbacks and suspended calls the event loop holds at a time
MaxTasks == 3
\* the configurations the layout is checked for
MaxTeamCount == 2
MaxClassCount == 2

(* Program constants: the test configuration *)
TeamCount == 2
SoldierCount == 1

NoPlayer == 0
Stale == 0
NoSlotId == -1

Players == 1 .. NumPlayers
Undefined == "undefined"
MapPool == <<"cp_badlands", "cp_process">>

configTest ==
  [teamCount |-> TeamCount,
   classes |-> << [name |-> "soldier", count |-> SoldierCount] >>,
   maps |-> MapPool]

----------------------------------------------------------------------------
(* Getters and pure helpers *)

RECURSIVE SumCounts(_)
SumCounts(classes) ==
  IF classes = << >> THEN 0
  ELSE Head(classes).count + SumCounts(Tail(classes))

requiredPlayerCount(cfg) == SumCounts(cfg.classes) * cfg.teamCount

playerCount(sl) == Cardinality({i \in DOMAIN sl : sl[i].playerId # NoPlayer})

readyPlayerCount(sl) == Cardinality({i \in DOMAIN sl : sl[i].playerReady})

RECURSIVE ClassSlots(_, _, _)
ClassSlots(name, n, lastId) ==
  IF n = 0 THEN << >>
  ELSE << [id |-> lastId, gameClass |-> name,
           playerId |-> NoPlayer, playerReady |-> FALSE] >>
       \o ClassSlots(name, n - 1, lastId + 1)

\* mutant: a block of count slots per class, whatever the number of teams
RECURSIVE BuildSlotsOneTeam(_, _, _)
BuildSlotsOneTeam(classes, teamCount, prev) ==
  IF classes = << >> THEN prev
  ELSE BuildSlotsOneTeam(Tail(classes), teamCount,
                         prev \o ClassSlots(Head(classes).name, Head(classes).count,
                                            Len(prev)))

RECURSIVE BuildSlots(_, _, _)
BuildSlots(classes, teamCount, prev) ==
  IF classes = << >> THEN prev
  ELSE BuildSlots(Tail(classes), teamCount,
                  prev \o ClassSlots(Head(classes).name,
                                     Head(classes).count * teamCount,
                                     Len(prev)))

resetSlots(cfg) == BuildSlots(cfg.classes, cfg.teamCount, << >>)

\* this.slots.find(s => s.id === slotId): index of the first match, 0 if none
FindById(sl, slotId) ==
  IF \E i \in DOMAIN sl : sl[i].id = slotId
  THEN CHOOSE i \in DOMAIN sl :
         sl[i].id = slotId /\ \A j \in DOMAIN sl : sl[j].id = slotId => i <= j
  ELSE 0

\* this.slots.find(s => s.playerId === playerId): index of the first match, 0 if none
FindByPlayer(sl, playerId) ==
  IF \E i \in DOMAIN sl : sl[i].playerId = playerId
  THEN CHOOSE i \in DOMAIN sl :
         sl[i].playerId = playerId
         /\ \A j \in DOMAIN sl : sl[j].playerId = playerId => i <= j
  ELSE 0

\* maps.filter(map => map !== this.map)
mapPool(cfg, m) == SelectSeq(cfg.maps, LAMBDA x : x # m)

\* the values mapPool[Math.floor(Math.random() * mapPool.length)] can take
randomizeMap(cfg, m) ==
  IF mapPool(cfg, m) = << >> THEN {Undefined}
  ELSE {mapPool(cfg, m)[i] : i \in DOMAIN mapPool(cfg, m)}

----------------------------------------------------------------------------
(* Events *)

SlotEvent(s) ==
  [type |-> "queue slot update", id |-> s.id, playerId |-> s.playerId,
   playerReady |-> s.playerReady, value |-> ""]

StateEvent(st) ==
  [type |-> "queue state update", id |-> NoSlotId, playerId |-> NoPlayer,
   playerReady |-> FALSE, value |-> st]

MapEvent(m) ==
  [type |-> "queue map updated", id |-> NoSlotId, playerId |-> NoPlayer,
   playerReady |-> FALSE, value |-> m]

SlotsResetEvent ==
  [type |-> "queue slots reset", id |-> NoSlotId, playerId |-> NoPlayer,
   playerReady |-> FALSE, value |-> ""]

----------------------------------------------------------------------------
(* What a client that applies the events holds: 'queue slots reset' carries *)
(* the new slot array, 'queue slot update' the slot that replaces the one   *)
(* with its id.                                                             *)

View(sl) == [i \in DOMAIN sl |-> [id |-> sl[i].id, playerId |-> sl[i].playerId]]

Apply(view, e, cfg) ==
  IF e.type = "queue slots reset" THEN View(resetSlots(cfg))
  ELSE IF e.type = "queue slot update"
    THEN [i \in DOMAIN view |->
            IF view[i].id = e.id
            THEN [id |-> e.id, playerId |-> e.playerId]
            ELSE view[i]]
  ELSE view

RECURSIVE Observe(_, _, _)
Observe(view, events, cfg) ==
  IF events = << >> THEN view
  ELSE Observe(Apply(view, Head(events), cfg), Tail(events), cfg)

----------------------------------------------------------------------------
(* The state machine.  q is the part of the service a transition touches:   *)
(* [slots, state, map, timeouts, launches, emitted].  The handle            *)
(* this.timer is only ever assigned and deleted, never passed to            *)
(* clearTimeout and never read, so a scheduled readyUpTimeout always runs:  *)
(* timeouts counts them.                                                    *)

slotUpdated(q, s) == [q EXCEPT !.emitted = Append(@, SlotEvent(s))]

\* mutant: the earlier Queue.readyUpTimeout, which unconfirms and evicts nobody
CleanSlotKeepsPlayer(s) == [s EXCEPT !.playerReady = FALSE]

CleanSlot(s) ==
  IF ~s.playerReady THEN [s EXCEPT !.playerId = NoPlayer]
  ELSE [s EXCEPT !.playerReady = FALSE]

cleanupQueue(q) ==
  [q EXCEPT !.slots = [i \in DOMAIN q.slots |-> CleanSlot(q.slots[i])],
            !.emitted = @ \o [i \in DOMAIN q.slots |-> SlotEvent(CleanSlot(q.slots[i]))]]

\* GameController.create up to its await: the players of the game, slot by
\* slot, with the team the running counter gives each; m is the map passed
create(queueSlots, m) ==
  [map |-> m,
   slots |-> [i \in DOMAIN queueSlots |->
                [playerId |-> queueSlots[i].playerId,
                 gameClass |-> queueSlots[i].gameClass,
                 teamId |-> ToString((i - 1) % 2)]]]

\* what is kept of a game while its creation is in flight: the map and, slot
\* by slot, class and team (the players are the occupants at the call)
Handed(game) ==
  [map |-> game.map,
   slots |-> [i \in DOMAIN game.slots |->
                [gameClass |-> game.slots[i].gameClass,
                 teamId |-> game.slots[i].teamId]]]

\* launch() runs up to its await: gameService.create has been called
launch(q) == [q EXCEPT !.launches = Append(@, Handed(create(q.slots, q.map)))]

onStateChange(q, oldState, newState) ==
  IF oldState = "waiting" /\ newState = "ready"
    THEN [q EXCEPT !.timeouts = @ + 1]
  ELSE IF oldState = "ready" /\ newState = "launching"
    THEN launch(q)
  ELSE IF oldState = "launching" /\ newState = "waiting"
    THEN q
  ELSE IF oldState = "ready" /\ newState = "waiting"
    THEN cleanupQueue(q)
  ELSE q

setState(q, st) ==
  IF st # q.state
  THEN [onStateChange(q, q.state, st) EXCEPT !.state = st,
                                              !.emitted = Append(@, StateEvent(st))]
  ELSE q

\* mutant: ready as soon as anyone has joined
updateStateAnyPlayer(q, cfg) ==
  CASE q.state = "waiting" ->
         IF playerCount(q.slots) >= 1
         THEN setState(q, "ready") ELSE q
    [] q.state = "ready" ->
         IF playerCount(q.slots) = 0 THEN setState(q, "waiting")
         ELSE IF readyPlayerCount(q.slots) = requiredPlayerCount(cfg)
              THEN setState(q, "launching") ELSE q
    [] q.state = "launching" -> setState(q, "waiting")

updateState(q, cfg) ==
  CASE q.state = "waiting" ->
         IF playerCount(q.slots) = requiredPlayerCount(cfg)
         THEN setState(q, "ready") ELSE q
    [] q.state = "ready" ->
         IF playerCount(q.slots) = 0 THEN setState(q, "waiting")
         ELSE IF readyPlayerCount(q.slots) = requiredPlayerCount(cfg)
              THEN setState(q, "launching") ELSE q
    [] q.state = "launching" -> setState(q, "waiting")

readyUpTimeout(q, cfg) ==
  IF readyPlayerCount(q.slots) = requiredPlayerCount(cfg)
  THEN setState(q, "launching")
  ELSE setState(q, "waiting")

\* mutant: reset() without its closing updateState()
resetWithoutUpdate(q, cfg, m) ==
  [q EXCEPT !.slots = resetSlots(cfg),
            !.map = m,
            !.emitted = @ \o <<SlotsResetEvent, MapEvent(m)>>]

\* reset() with m the map randomizeMap draws
reset(q, cfg, m) ==
  updateState([q EXCEPT !.slots = resetSlots(cfg),
                        !.map = m,
                        !.emitted = @ \o <<SlotsResetEvent, MapEvent(m)>>], cfg)

----------------------------------------------------------------------------
(* The service as q, and q written back *)

Q == [slots |-> slots, state |-> state, map |-> map, timeouts |-> timeouts,
      launches |-> launches, emitted |-> << >>]

Tasks == pendingUpdates + timeouts + Cardinality(pendingReady) + Len(launches)
         + pendingResets

\* join, leave and ready each leave one more task with the event loop; every
\* task that runs leaves at most one in its place
Room == Tasks < MaxTasks

Commit(q) ==
  /\ slots' = q.slots
  /\ state' = q.state
  /\ timeouts' = q.timeouts
  /\ launches' = q.launches
  /\ emitted' = q.emitted

\* result: "ok" with slotId the id of the slot returned, or the message of
\* the error thrown (leave: "null" for the null it returns)
Op(name, slotId, result) == [op |-> name, slotId |-> slotId, result |-> result]

Fails(name, result) ==
  /\ lastOp' = Op(name, NoSlotId, result)
  /\ emitted' = << >>
  /\ UNCHANGED <<config, slots, state, map, timeouts, pendingUpdates,
                 pendingReady, launches, pendingResets>>

----------------------------------------------------------------------------
(* join *)

\* mutant: the player's previous slot is not given up
VacateNone(q, playerId) == q

\* mutant: the previous slot is emptied but stays confirmed
VacateKeepsReady(q, playerId) ==
  [q EXCEPT
     !.slots = [i \in DOMAIN q.slots |->
                  IF q.slots[i].playerId = playerId
                  THEN [q.slots[i] EXCEPT !.playerId = NoPlayer]
                  ELSE q.slots[i]],
     !.emitted = @ \o
        [k \in 1 .. Cardinality({i \in DOMAIN q.slots : q.slots[i].playerId = playerId}) |->
           SlotEvent([q.slots[
               CHOOSE i \in DOMAIN q.slots :
                 /\ q.slots[i].playerId = playerId
                 /\ Cardinality({j \in 1 .. i : q.slots[j].playerId = playerId}) = k]
             EXCEPT !.playerId = NoPlayer])]]

\* remove player from any slot he could be occupying
Vacate(q, playerId) ==
  [q EXCEPT
     !.slots = [i \in DOMAIN q.slots |->
                  IF q.slots[i].playerId = playerId
                  THEN [q.slots[i] EXCEPT !.playerId = NoPlayer, !.playerReady = FALSE]
                  ELSE q.slots[i]],
     !.emitted = @ \o
        [k \in 1 .. Cardinality({i \in DOMAIN q.slots : q.slots[i].playerId = playerId}) |->
           SlotEvent([q.slots[
               CHOOSE i \in DOMAIN q.slots :
                 /\ q.slots[i].playerId = playerId
                 /\ Cardinality({j \in 1 .. i : q.slots[j].playerId = playerId}) = k]
             EXCEPT !.playerId = NoPlayer, !.playerReady = FALSE])]]

Occupy(q, idx, playerId) ==
  LET taken == [q.slots[idx] EXCEPT
                  !.playerId = playerId,
                  !.playerReady = IF q.state = "ready" THEN TRUE ELSE @]
  IN slotUpdated([q EXCEPT !.slots[idx] = taken], taken)

\* mutant: the occupant of the target slot is not looked at
JoinErrorIgnoresOccupant(slotId, dir) ==
  IF dir = "missing" THEN "no such player"
  ELSE IF dir = "active" THEN "player involved in a currently active game"
  ELSE IF FindById(slots, slotId) = 0 THEN "no such slot"
  ELSE "ok"

JoinError(slotId, dir) ==
  IF dir = "missing" THEN "no such player"
  ELSE IF dir = "active" THEN "player involved in a currently active game"
  ELSE IF FindById(slots, slotId) = 0 THEN "no such slot"
  ELSE IF slots[FindById(slots, slotId)].playerId # NoPlayer THEN "slot already taken"
  ELSE "ok"

Join(slotId, playerId, dir) ==
  IF JoinError(slotId, dir) # "ok"
  THEN Fails("join", JoinError(slotId, dir))
  ELSE /\ Room
       /\ lastOp' = Op("join", slotId, "ok")
       /\ pendingUpdates' = pendingUpdates + 1
       /\ Commit(Occupy(Vacate(Q, playerId), FindById(slots, slotId), playerId))
       /\ UNCHANGED <<config, map, pendingReady, pendingResets>>

----------------------------------------------------------------------------
(* leave *)

\* mutant: the guard of the earlier Queue.leave, which looks at ready only
LeaveErrorReadyOnly(idx) ==
  IF idx = 0 THEN "null"
  ELSE IF slots[idx].playerReady /\ state = "ready"
       THEN "cannot unready when already readied up"
  ELSE "ok"

LeaveError(idx) ==
  IF idx = 0 THEN "null"
  ELSE IF slots[idx].playerReady /\ (state = "ready" \/ state = "launching")
       THEN "cannot unready when already readied up"
  ELSE "ok"

\* mutant: the slot is unconfirmed but its player is kept
FreeKeepsPlayer(q, idx) ==
  LET freed == [q.slots[idx] EXCEPT !.playerReady = FALSE]
  IN slotUpdated([q EXCEPT !.slots[idx] = freed], freed)

Free(q, idx) ==
  LET freed == [q.slots[idx] EXCEPT !.playerId = NoPlayer]
  IN slotUpdated([q EXCEPT !.slots[idx] = freed], freed)

Leave(playerId) ==
  LET idx == FindByPlayer(slots, playerId)
  IN IF LeaveError(idx) # "ok"
     THEN Fails("leave", LeaveError(idx))
     ELSE /\ Room
          /\ lastOp' = Op("leave", slots[idx].id, "ok")
          /\ pendingUpdates' = pendingUpdates + 1
          /\ Commit(Free(Q, idx))
          /\ UNCHANGED <<config, map, pendingReady, pendingResets>>

----------------------------------------------------------------------------
(* ready: the checks and the slot lookup run when the call is made, the     *)
(* slot is written when playerModel.findById has answered.                  *)

NoSlot == [id |-> NoSlotId, gameClass |-> "", playerId |-> NoPlayer, playerReady |-> FALSE]

ReadyError(idx) ==
  IF state # "ready" THEN "queue not ready"
  ELSE IF idx = 0 THEN "player is not in the queue"
  ELSE "ok"

\* a suspended call holds the slot object it found: slot idx of this.slots,
\* or (idx = Stale) an object of an array that reset() has replaced
Suspended(playerId, idx) == [playerId |-> playerId, idx |-> idx, obj |-> NoSlot]

ReadyCall(playerId) ==
  LET idx == FindByPlayer(slots, playerId)
  IN IF ReadyError(idx) # "ok"
     THEN Fails("ready", ReadyError(idx))
     ELSE /\ Room
          /\ Suspended(playerId, idx) \notin pendingReady
          /\ pendingReady' = pendingReady \cup {Suspended(playerId, idx)}
          /\ lastOp' = Op("ready", NoSlotId, "pending")
          /\ emitted' = << >>
          /\ UNCHANGED <<config, slots, state, map, timeouts, pendingUpdates,
                         launches, pendingResets>>

\* slot.playerReady = true on the object the call holds
Confirm(q, r) ==
  IF r.idx = Stale THEN q ELSE [q EXCEPT !.slots[r.idx].playerReady = TRUE]

Confirmed(q, r) ==
  IF r.idx = Stale THEN [r.obj EXCEPT !.playerReady = TRUE] ELSE q.slots[r.idx]

\* found = FALSE: findById answered null and `player.name` throws
ReadyResume(r, found) ==
  /\ r \in pendingReady
  /\ pendingReady' = pendingReady \ {r}
  /\ IF found
     THEN /\ Commit(slotUpdated(Confirm(Q, r), Confirmed(Confirm(Q, r), r)))
          /\ pendingUpdates' = pendingUpdates + 1
          /\ lastOp' = Op("ready", Confirmed(Q, r).id, "ok")
     ELSE /\ Commit(Confirm(Q, r))
          /\ pendingUpdates' = pendingUpdates
          /\ lastOp' = Op("ready", NoSlotId, "TypeError")
  /\ UNCHANGED <<config, map, launches, pendingResets>>

----------------------------------------------------------------------------
(* Tasks of the event loop *)

UpdateStateTask ==
  /\ pendingUpdates > 0
  /\ pendingUpdates' = pendingUpdates - 1
  /\ Commit(updateState(Q, config))
  /\ lastOp' = Op("updateState", NoSlotId, "ok")
  /\ UNCHANGED <<config, map, pendingReady, pendingResets>>

ReadyUpTimeoutTask ==
  /\ timeouts > 0
  /\ Commit(readyUpTimeout([Q EXCEPT !.timeouts = @ - 1], config))
  /\ lastOp' = Op("readyUpTimeout", NoSlotId, "ok")
  /\ UNCHANGED <<config, map, pendingUpdates, pendingReady, pendingResets>>

\* gameService.create settles; launch() goes on only when it resolved
CreateSettles(k, ok) ==
  /\ k \in DOMAIN launches
  /\ launches' = [i \in 1 .. Len(launches) - 1 |->
                    IF i < k THEN launches[i] ELSE launches[i + 1]]
  /\ pendingResets' = IF ok THEN pendingResets + 1 ELSE pendingResets
  /\ lastOp' = Op("create", NoSlotId, IF ok THEN "ok" ELSE "rejected")
  /\ emitted' = << >>
  /\ UNCHANGED <<config, slots, state, map, timeouts, pendingUpdates, pendingReady>>

\* the slot objects of the replaced array stay with the calls that hold them
\* (their playerReady is left out: the call overwrites it before any use)
Outdated(r) ==
  IF r.idx = Stale THEN r
  ELSE [r EXCEPT !.idx = Stale, !.obj = [slots[r.idx] EXCEPT !.playerReady = FALSE]]

ResetTask ==
  /\ pendingResets > 0
  /\ pendingResets' = pendingResets - 1
  /\ \E m \in randomizeMap(config, map) :
       /\ map' = m
       /\ Commit(reset(Q, config, m))
  /\ pendingReady' = {Outdated(r) : r \in pendingReady}
  /\ lastOp' = Op("reset", NoSlotId, "ok")
  /\ UNCHANGED <<config, pendingUpdates>>

----------------------------------------------------------------------------
(* The service after its constructor: reset() on the initial fields *)

Constructed(cfg, m) ==
  reset([slots |-> << >>, state |-> "waiting", map |-> Undefined, timeouts |-> 0,
         launches |-> << >>, emitted |-> << >>], cfg, m)

InitWith(cfg) ==
  /\ config = cfg
  /\ \E m \in randomizeMap(cfg, Undefined) :
       /\ map = m
       /\ slots = Constructed(cfg, m).slots
       /\ state = Constructed(cfg, m).state
       /\ timeouts = Constructed(cfg, m).timeouts
       /\ launches = Constructed(cfg, m).launches
       /\ emitted = Constructed(cfg, m).emitted
  /\ pendingUpdates = 0
  /\ pendingReady = {}
  /\ pendingResets = 0
  /\ lastOp = Op("reset", NoSlotId, "ok")

Init == InitWith(configTest)

SlotIds == 0 .. requiredPlayerCount(config)

Next ==
  \/ \E slotId \in SlotIds, playerId \in Players, dir \in {"ok", "missing", "active"} :
       Join(slotId, playerId, dir)
  \/ \E playerId \in Players : Leave(playerId)
  \/ \E playerId \in Players : ReadyCall(playerId)
  \/ \E r \in pendingReady, found \in BOOLEAN : ReadyResume(r, found)
  \/ UpdateStateTask
  \/ ReadyUpTimeoutTask
  \/ \E k \in DOMAIN launches, ok \in BOOLEAN : CreateSettles(k, ok)
  \/ ResetTask

Spec == Init /\ [][Next]_vars

\* Node runs every callback it has scheduled and every promise settles: a
\* task the event loop holds is eventually run.  Calls from clients are not
\* forced.
Fairness ==
  /\ WF_vars(UpdateStateTask)
  /\ WF_vars(ReadyUpTimeoutTask)
  /\ WF_vars(\E k \in DOMAIN launches, ok \in BOOLEAN : CreateSettles(k, ok))
  /\ WF_vars(ResetTask)
  /\ WF_vars(\E r \in pendingReady, found \in BOOLEAN : ReadyResume(r, found))

LiveSpec == Spec /\ Fairness

\* the same service under a configuration whose map set has a single map
configOneMap == [configTest EXCEPT !.maps = <<"cp_badlands">>]

InitOneMap == InitWith(configOneMap)

SpecOneMap == InitOneMap /\ [][Next]_vars

\* the same service under the configuration of one team of two players
configOneTeam ==
  [teamCount |-> 1, classes |-> << [name |-> "soldier", count |-> 2] >>,
   maps |-> MapPool]

InitOneTeam == InitWith(configOneTeam)

SpecOneTeam == InitOneTeam /\ [][Next]_vars

----------------------------------------------------------------------------
(* The service under every small configuration, driven through its public   *)
(* methods join, leave and reset only                                       *)

ClassNames == {"scout", "soldier"}

Classes ==
  {<<[name |-> n, count |-> c]>> : n \in ClassNames, c \in 1 .. MaxClassCount}
  \cup {<<[name |-> n1, count |-> c1], [name |-> n2, count |-> c2]>> :
          n1 \in ClassNames, n2 \in ClassNames, c1 \in 1 .. MaxClassCount,
          c2 \in 1 .. MaxClassCount}

Configs ==
  {[teamCount |-> t, classes |-> cl, maps |-> MapPool] :
     t \in 1 .. MaxTeamCount,
     cl \in {c \in Classes : Len(c) = 1 \/ c[1].name # c[2].name}}

InitLayouts == \E cfg \in Configs : InitWith(cfg)

\* reset() called on the service
ResetCall ==
  /\ \E m \in randomizeMap(config, map) :
       /\ map' = m
       /\ Commit(reset(Q, config, m))
  /\ pendingReady' = {Outdated(r) : r \in pendingReady}
  /\ lastOp' = Op("reset", NoSlotId, "ok")
  /\ UNCHANGED <<config, pendingUpdates, pendingResets>>

NextLayouts ==
  \/ \E slotId \in SlotIds, playerId \in Players, dir \in {"ok", "missing", "active"} :
       Join(slotId, playerId, dir)
  \/ \E playerId \in Players : Leave(playerId)
  \/ ResetCall

SpecLayouts == InitLayouts /\ [][NextLayouts]_vars

----------------------------------------------------------------------------
(* Properties *)

Occupied(i) == slots[i].playerId # NoPlayer

AllOccupied == \A i \in DOMAIN slots : Occupied(i)

AllConfirmed == \A i \in DOMAIN slots : slots[i].playerReady

StateEmitted(st) == \E k \in DOMAIN emitted : emitted[k] = StateEvent(st)

\* C1: in every reachable state no player id occupies more than one slot.
C1_OnePlayerOneSlot ==
  \A i, j \in DOMAIN slots :
    (i # j /\ Occupied(i)) => slots[i].playerId # slots[j].playerId

\* a join has moved a player between slots while the queue was ready and the
\* other slot is held by someone else
C1_Witness ==
  /\ lastOp.op = "join" /\ lastOp.result = "ok"
  /\ Len(emitted) = 2
  /\ state = "ready"

C3_ConfirmedHasOccupant ==
  \A i \in DOMAIN slots : slots[i].playerReady => Occupied(i)

\* C4: in every reachable state, if the lifecycle is launching then every
\* slot is confirmed.
C4_LaunchingAllConfirmed ==
  state = "launching" => AllConfirmed

Dirs == {"ok", "missing", "active"}

CannotUnready == "cannot unready when already readied up"

\* the step changed nothing of the service, emitted nothing and scheduled nothing
Untouched ==
  /\ emitted' = << >>
  /\ UNCHANGED <<slots, state, map, timeouts, pendingUpdates, pendingReady,
                 launches, pendingResets>>

JoinTarget(slotId) == FindById(slots, slotId)

TargetTaken(slotId) ==
  JoinTarget(slotId) # 0 /\ slots[JoinTarget(slotId)].playerId # NoPlayer

\* C5 as stated: join fails with "no such slot" when no slot has the id and
\* with "slot already taken" when the target is occupied, whoever the player
\* is, and the failed call changes nothing and emits nothing.
C5_JoinRejections ==
  [][lastOp'.op = "join" =>
       \A slotId \in SlotIds, playerId \in Players, dir \in Dirs :
         Join(slotId, playerId, dir) =>
           /\ JoinTarget(slotId) = 0 =>
                (lastOp'.result = "no such slot" /\ Untouched)
           /\ TargetTaken(slotId) =>
                (lastOp'.result = "slot already taken" /\ Untouched)]_vars

\* C5 amended: for a player the directory knows and who is in no active
\* game, join fails with "no such slot" when no slot has the id and with
\* "slot already taken" when the target is occupied (also by the caller);
\* every failed join, these two and the two directory failures, changes
\* nothing and emits nothing.
C5_JoinRejectionsKnownPlayer ==
  [][lastOp'.op = "join" =>
       \A slotId \in SlotIds, playerId \in Players, dir \in Dirs :
         Join(slotId, playerId, dir) =>
           /\ (dir = "ok" /\ JoinTarget(slotId) = 0) =>
                lastOp'.result = "no such slot"
           /\ (dir = "ok" /\ TargetTaken(slotId)) =>
                lastOp'.result = "slot already taken"
           /\ dir = "missing" => lastOp'.result = "no such player"
           /\ lastOp'.result # "ok" => Untouched]_vars

\* a join has been refused with "slot already taken" although the only
\* occupant of the queue is one player: the caller's previous slot is kept
C5_Witness ==
  /\ lastOp.op = "join" /\ lastOp.result = "slot already taken"
  /\ playerCount(slots) = 1
  /\ emitted = << >>

\* C6: leave throws "cannot unready" exactly when the player's slot is
\* confirmed and the lifecycle is ready or launching, and then changes
\* nothing; in every other case where the player holds a slot, the slot is
\* vacated.
C6_LeaveCannotUnready ==
  [][\A playerId \in Players :
       Leave(playerId) =>
         LET idx == FindByPlayer(slots, playerId) IN
           /\ lastOp'.result = CannotUnready <=>
                (idx # 0 /\ slots[idx].playerReady /\ state \in {"ready", "launching"})
           /\ lastOp'.result = CannotUnready => Untouched
           /\ (idx # 0 /\ lastOp'.result # CannotUnready) =>
                (slots'[idx].playerId = NoPlayer /\ FindByPlayer(slots', playerId) = 0)]_vars

\* a confirmed player has been refused while the queue is launching
C6_Witness ==
  /\ lastOp.op = "leave" /\ lastOp.result = CannotUnready
  /\ state = "launching"

\* C7: ready throws "queue not ready" whenever the lifecycle is not ready,
\* "player is not in the queue" when it is ready and the player holds no
\* slot, both without changing anything; otherwise it sets playerReady on
\* exactly the caller's slot and changes nothing else of slots, lifecycle
\* and map.
C7_ReadyContract ==
  [][/\ \A playerId \in Players :
          ReadyCall(playerId) =>
            /\ state # "ready" => (lastOp'.result = "queue not ready" /\ Untouched)
            /\ (state = "ready" /\ FindByPlayer(slots, playerId) = 0) =>
                 (lastOp'.result = "player is not in the queue" /\ Untouched)
            /\ UNCHANGED <<slots, state, map>>
     /\ \A r \in pendingReady, found \in BOOLEAN :
          ReadyResume(r, found) =>
            /\ FindByPlayer(slots, r.playerId) # 0
            /\ slots' = [slots EXCEPT ![FindByPlayer(slots, r.playerId)].playerReady = TRUE]
            /\ UNCHANGED <<state, map>>]_vars

C9_LeaveTwice ==
  [][\A playerId \in Players :
       Leave(playerId) =>
         /\ lastOp'.result \in {"ok", "null"} => FindByPlayer(slots', playerId) = 0
         /\ FindByPlayer(slots, playerId) = 0 =>
              (lastOp'.result = "null" /\ Untouched)]_vars

\* a leave has returned null with a transition re-check of an earlier leave
\* or join still scheduled
C9_Witness ==
  /\ lastOp.op = "leave" /\ lastOp.result = "null"
  /\ pendingUpdates > 0
  /\ playerCount(slots) = 0

\* C10: right after reset() every slot is unoccupied and unconfirmed, the
\* occupant count is 0 and the lifecycle is waiting.
C10_AfterReset ==
  lastOp.op = "reset" =>
    /\ \A i \in DOMAIN slots : ~Occupied(i) /\ ~slots[i].playerReady
    /\ playerCount(slots) = 0
    /\ state = "waiting"

\* a reset has run while the lifecycle was ready: it cleaned the queue and
\* announced waiting
C10_Witness ==
  /\ lastOp.op = "reset"
  /\ Len(emitted) > 3
  /\ StateEmitted("waiting")

\* C11: the transition re-check of a successful join runs before any other
\* operation or timer: the step after a join made while waiting is its
\* updateState, which makes the lifecycle ready with every slot unconfirmed
\* when the join filled the last free slot and keeps it waiting otherwise.
C11_RecheckBeforeNextOperation ==
  [][(lastOp.op = "join" /\ lastOp.result = "ok" /\ state = "waiting") =>
       /\ lastOp'.op = "updateState"
       /\ AllOccupied => (state' = "ready" /\ readyPlayerCount(slots') = 0)
       /\ ~AllOccupied => state' = "waiting"]_vars

\* C12: when the lifecycle is ready and every occupant has confirmed, the
\* re-check makes it launching; every entry into launching calls
\* gameService.create with the selected map and with every slot, and the
\* slots it passes are all occupied, by distinct players.
C12_LaunchHandsOffFullRoster ==
  [][/\ (UpdateStateTask /\ state = "ready" /\ AllOccupied /\ AllConfirmed) =>
          state' = "launching"
     /\ (state # "launching" /\ state' = "launching") =>
          /\ Len(launches') = Len(launches) + 1
          /\ launches'[Len(launches')] = Handed(create(slots', map))
          /\ \A i \in DOMAIN slots :
               /\ create(slots', map).slots[i].playerId # NoPlayer
               /\ \A j \in DOMAIN slots :
                    i # j => create(slots', map).slots[i].playerId
                               # create(slots', map).slots[j].playerId]_vars

\* C13: when the ready-up timer fires while the lifecycle is ready and not
\* every slot is confirmed, the lifecycle becomes waiting, every slot that
\* was unconfirmed is empty, every slot that was confirmed keeps its
\* occupant, and no slot is confirmed.
C13_TimeoutEvictsUnconfirmed ==
  [][(ReadyUpTimeoutTask /\ state = "ready" /\ ~AllConfirmed) =>
       /\ state' = "waiting"
       /\ \A i \in DOMAIN slots :
            /\ ~slots[i].playerReady => slots'[i].playerId = NoPlayer
            /\ slots[i].playerReady => slots'[i].playerId = slots[i].playerId
            /\ ~slots'[i].playerReady]_vars

\* the ready-up timer has fired on a ready queue in which one player had
\* confirmed: that player is the only one left, unconfirmed
C13_Witness ==
  /\ lastOp.op = "readyUpTimeout"
  /\ StateEmitted("waiting")
  /\ playerCount(slots) = 1
  /\ readyPlayerCount(slots) = 0

\* C14: once the lifecycle is launching, reset() is eventually performed,
\* whether gameService.create resolves or rejects.
C14_LaunchingLeadsToReset ==
  (state = "launching") ~> (lastOp.op = "reset")

\* C15: a ready-up timer that fires after the queue has left the ready
\* episode that started it changes neither the slots nor the lifecycle.
\* Timers fire in the order they were started, so the one firing is stale
\* when the lifecycle is not ready or when a younger timer is also scheduled.
C15_StaleTimerIsNoOp ==
  [][(ReadyUpTimeoutTask /\ (state # "ready" \/ timeouts > 1)) =>
       UNCHANGED <<slots, state>>]_vars

\* C17: the lifecycle leaves launching only in the reset() that follows the
\* game creation.
C17_LeavesLaunchingByResetOnly ==
  [][(state = "launching" /\ state' # "launching") => lastOp'.op = "reset"]_vars

\* C18: every lifecycle change is waiting -> ready, ready -> waiting,
\* ready -> launching or launching -> waiting.
C18_LifecycleChanges ==
  [][state' # state =>
       <<state, state'>> \in {<<"waiting", "ready">>, <<"ready", "waiting">>,
                              <<"ready", "launching">>, <<"launching", "waiting">>}]_vars

\* C20: when ready() writes playerReady, the slot it writes belongs to the
\* current slot array, is occupied by the caller, and the lifecycle is ready.
C20_ReadySerialized ==
  [][\A r \in pendingReady, found \in BOOLEAN :
       ReadyResume(r, found) =>
         /\ r.idx # Stale
         /\ slots[r.idx].playerId = r.playerId
         /\ state = "ready"]_vars

Maps == {config.maps[i] : i \in DOMAIN config.maps}

\* C19: after every reset the selected map is one of config.maps; it differs
\* from the map of the previous reset when the set has more than one map and
\* is the same map again when the set has a single map.
C19_MapAfterReset ==
  /\ lastOp.op = "reset" => map \in Maps
  /\ [][ResetTask =>
          /\ map' \in Maps
          /\ Len(config.maps) > 1 => map' # map
          /\ Len(config.maps) = 1 => map' = map]_vars

\* C16: whenever 'queue state update' is emitted, the slot updates of the
\* step have been emitted before it, and the events of the step before and
\* of this step describe every slot they name with the occupant the queue
\* has: applied to the slots as they are, they change no occupant.
C16_SlotUpdatesBeforeStateUpdate ==
  [][\A k \in DOMAIN emitted' :
       emitted'[k].type = "queue state update" =>
         /\ \A j \in DOMAIN emitted' :
              emitted'[j].type = "queue slot update" => j < k
         /\ Observe(View(slots'), emitted \o emitted', config) = View(slots')]_vars

\* the order alone: within a step no slot update follows the state update
C16_OrderWithinStep ==
  [][\A k, j \in DOMAIN emitted' :
       (emitted'[k].type = "queue state update"
        /\ emitted'[j].type = "queue slot update") => j < k]_vars

\* C21: a successful join leaves the slot it took confirmed if and only if
\* the lifecycle is ready when the join is made.
C21_JoinConfirmsIffReady ==
  [][\A slotId \in SlotIds, playerId \in Players :
       (Join(slotId, playerId, "ok") /\ lastOp'.result = "ok") =>
         (slots'[JoinTarget(slotId)].playerReady <=> state = "ready")]_vars

\* the counts of the classes configured before class c, summed
RECURSIVE CountBefore(_, _)
CountBefore(cfg, c) ==
  IF c = 1 THEN 0 ELSE cfg.classes[c - 1].count + CountBefore(cfg, c - 1)

\* the class whose block of count * teamCount ids holds id
ClassAt(cfg, id) ==
  CHOOSE c \in DOMAIN cfg.classes :
    /\ cfg.teamCount * CountBefore(cfg, c) <= id
    /\ id < cfg.teamCount * (CountBefore(cfg, c) + cfg.classes[c].count)

\* C22: for every configuration there are teamCount * (sum of the class
\* counts) slots, with ids 0 .. N-1 in order, the slots of each class one
\* contiguous block of count * teamCount ids in configured class order, in
\* every state and so after every reset; right after a reset every slot is
\* unoccupied and unconfirmed.
C22_SlotLayout ==
  LET N == config.teamCount * CountBefore(config, Len(config.classes) + 1)
  IN /\ Len(slots) = N
     /\ N = requiredPlayerCount(config)
     /\ \A i \in 1 .. N :
          /\ slots[i].id = i - 1
          /\ slots[i].gameClass = config.classes[ClassAt(config, i - 1)].name
          /\ lastOp.op = "reset" =>
               (slots[i].playerId = NoPlayer /\ ~slots[i].playerReady)

\* reset has rebuilt the slots of a two-class, two-team configuration in
\* which players had joined
C22_Witness ==
  /\ lastOp.op = "reset"
  /\ pendingUpdates > 1
  /\ Len(config.classes) = 2
  /\ config.teamCount = 2
  /\ config.classes[1].count = 2
  /\ Len(slots) > 4

\* the slots of game g that team t has of the class named n
TeamClass(g, t, n) ==
  {i \in DOMAIN g.slots : g.slots[i].teamId = ToString(t) /\ g.slots[i].gameClass = n}

\* C23: in every game handed to creation the slot at layout index i has team
\* i mod teamCount, and each team has class.count slots of each class.
C23_TeamsRoundRobin ==
  \A k \in DOMAIN launches :
    /\ \A i \in DOMAIN launches[k].slots :
         launches[k].slots[i].teamId = ToString((i - 1) % config.teamCount)
    /\ \A t \in 0 .. config.teamCount - 1, c \in DOMAIN config.classes :
         Cardinality(TeamClass(launches[k], t, config.classes[c].name))
           = config.classes[c].count

\* C24: of the games handed to creation, at most one has not been followed
\* by its reset: no second game is handed over before the reset of the first.
C24_OneHandoffPerReset ==
  Len(launches) + pendingResets <= 1

\* C25: while the lifecycle is launching no slot's occupant or confirmed
\* flag changes, whatever join, leave or ready is called, until the reset
\* that follows the game creation.
C25_RosterFrozenWhileLaunching ==
  [][(state = "launching" /\ slots' # slots) => lastOp'.op = "reset"]_vars

====
